---- MODULE Spec2Model ----
(***************************************************************************)
(* Model of src/src/session.rs: the clonable websocket Session handle.     *)
(*                                                                         *)
(* A Session is `inner: Option<Sender<Message>>` plus a shared             *)
(* `closed: Arc<AtomicBool>`.  All handles of the model derive from one    *)
(* Session::new, so there is one flag and one channel (one handle family). *)
(* Handles may live on different threads, so every access to shared state  *)
(* (the atomic flag, the channel) is a step of its own; the handle-local   *)
(* work between two shared accesses belongs to the step before it.         *)
(* The Relaxed atomics are modelled as one coherent cell.                  *)
(***************************************************************************)
EXTENDS Integers, Sequences, FiniteSets, TLC

\* ---------------------------------------------------------------- bounds
MaxHandles == 2   \* handles of the family: the original and its clones
MaxOps     == 2   \* operations (text/binary/ping/pong/close/drop) started in a run
Cap        == 1   \* capacity of the bounded mpsc channel

Handles  == 1..MaxHandles
Payloads == {"a", "b"}          \* message payloads
Reasons  == {"None", "bye"}     \* Option<CloseReason>
SendTags == {"Text", "Binary", "Ping", "Pong"}

NoMsg == [tag |-> "none", data |-> "none", src |-> 0, id |-> 0]

VARIABLES
    closed,    \* the shared AtomicBool
    inner,     \* inner[h]: TRUE = Some(sender), FALSE = None
    life,      \* "unborn" | "live" | "gone" (dropped, or consumed by close)
    pc,        \* "idle" | "store" | "send" | "wait": position of h's operation
    msg,       \* the Message the running operation of h is sending
    chan,      \* the channel's buffer, head first
    rxAlive,   \* the Receiver has not been dropped
    received,  \* messages the consumer took, in order
    res,       \* result of h's latest operation: "none" | "Ok" | "Closed"
    opn,       \* opn[h]: operations started on h (numbers h's messages)
    started,   \* operations started on all handles together
    limit,     \* operations the run may start
    obs,       \* history: what h's latest operation observed and did
    pushed,    \* history: every message ever enqueued, in order
    closeOk,   \* history: some close() has returned Ok
    erred,     \* history: erred[h] = some operation on h returned Closed
    seen,      \* history: a pre-check of h, or of the handle h was cloned from
               \* before the clone, has read the flag true
    acked,     \* history: <<h, n>> for every operation n of h that returned Ok
    writes,    \* history: number of stores to the flag
    late       \* history: late[h] = messages h enqueued while the flag was true

vars == <<closed, inner, life, pc, msg, chan, rxAlive, received, res, opn,
          started, limit, obs, pushed, closeOk, erred, seen, acked, writes, late>>

NoObs == [op |-> "none", readTrue |-> FALSE, afterCloseOk |-> FALSE,
          afterDrop |-> FALSE, afterCloseFrame |-> FALSE,
          failedBefore |-> FALSE, push |-> "no", wrote |-> FALSE,
          waited |-> FALSE, cancelled |-> FALSE]

IsClose(m) == m.tag = "Close"
HasClose(s) == \E i \in 1..Len(s) : IsClose(s[i])

\* What an operation on h sees when it starts (taken at its pre-check).
Begin(h, op) ==
    [NoObs EXCEPT !.op = op,
                  !.readTrue = closed,
                  !.afterCloseOk = closeOk,
                  !.afterDrop = ~rxAlive,
                  !.afterCloseFrame = HasClose(pushed),
                  !.failedBefore = erred[h]]

\* ------------------------------------------------------------ Session::new
InitWith(l) ==
    /\ closed = FALSE
    /\ inner = [h \in Handles |-> h = 1]
    /\ life = [h \in Handles |-> IF h = 1 THEN "live" ELSE "unborn"]
    /\ pc = [h \in Handles |-> "idle"]
    /\ msg = [h \in Handles |-> NoMsg]
    /\ chan = <<>>
    /\ rxAlive = TRUE
    /\ received = <<>>
    /\ res = [h \in Handles |-> "none"]
    /\ opn = [h \in Handles |-> 0]
    /\ started = 0
    /\ limit = l
    /\ obs = [h \in Handles |-> NoObs]
    /\ pushed = <<>>
    /\ closeOk = FALSE
    /\ erred = [h \in Handles |-> FALSE]
    /\ seen = [h \in Handles |-> FALSE]
    /\ acked = {}
    /\ writes = 0
    /\ late = [h \in Handles |-> 0]

Init == InitWith(MaxOps)

\* -------------------------------------------------------------- pre_check
\* if self.closed.load(Relaxed) { self.inner.take(); }  -- the slot afterwards
pre_check_skip(slot, flag) == slot
pre_check_always(slot, flag) == FALSE
pre_check(slot, flag) == IF flag THEN FALSE ELSE slot

\* The operation of h returns r; close consumes the handle.
Return(h, r) ==
    /\ res' = [res EXCEPT ![h] = r]
    /\ pc' = [pc EXCEPT ![h] = "idle"]
    /\ msg' = [msg EXCEPT ![h] = NoMsg]
    /\ erred' = [erred EXCEPT ![h] = @ \/ r = "Closed"]
    /\ closeOk' = (closeOk \/ (obs[h].op = "close" /\ r = "Ok"))
    /\ life' = [life EXCEPT ![h] = IF obs[h].op = "close" THEN "gone" ELSE @]
    /\ acked' = IF r = "Ok" THEN acked \cup {<<h, opn[h]>>} ELSE acked

CanStart(h) == life[h] = "live" /\ pc[h] = "idle" /\ started < limit

\* ----------------------------------------------- text / binary / ping / pong
\* pre_check, then `if let Some(inner) = self.inner.as_mut()`.
SendStart_noPreCheck(h, tag, data) ==
    /\ CanStart(h)
    /\ opn' = [opn EXCEPT ![h] = @ + 1]
    /\ started' = started + 1
    /\ UNCHANGED limit
    /\ LET slot == inner[h] IN
       /\ inner' = [inner EXCEPT ![h] = slot]
       /\ obs' = [obs EXCEPT ![h] = Begin(h, "send")]
       /\ seen' = [seen EXCEPT ![h] = @ \/ closed]
       /\ IF slot
          THEN /\ pc' = [pc EXCEPT ![h] = "send"]
               /\ msg' = [msg EXCEPT ![h] =
                            [tag |-> tag, data |-> data, src |-> h, id |-> opn[h] + 1]]
               /\ res' = [res EXCEPT ![h] = "none"]
               /\ UNCHANGED <<erred>>
          ELSE /\ res' = [res EXCEPT ![h] = "Closed"]
               /\ erred' = [erred EXCEPT ![h] = TRUE]
               /\ UNCHANGED <<pc, msg>>
    /\ UNCHANGED <<closed, life, chan, rxAlive, received, pushed, closeOk, acked, writes, late>>
SendStart(h, tag, data) ==
    /\ CanStart(h)
    /\ opn' = [opn EXCEPT ![h] = @ + 1]
    /\ started' = started + 1
    /\ UNCHANGED limit
    /\ LET slot == pre_check(inner[h], closed) IN
       /\ inner' = [inner EXCEPT ![h] = slot]
       /\ obs' = [obs EXCEPT ![h] = Begin(h, "send")]
       /\ seen' = [seen EXCEPT ![h] = @ \/ closed]
       /\ IF slot
          THEN /\ pc' = [pc EXCEPT ![h] = "send"]
               /\ msg' = [msg EXCEPT ![h] =
                            [tag |-> tag, data |-> data, src |-> h, id |-> opn[h] + 1]]
               /\ res' = [res EXCEPT ![h] = "none"]
               /\ UNCHANGED <<erred>>
          ELSE /\ res' = [res EXCEPT ![h] = "Closed"]
               /\ erred' = [erred EXCEPT ![h] = TRUE]
               /\ UNCHANGED <<pc, msg>>
    /\ UNCHANGED <<closed, life, chan, rxAlive, received, pushed, closeOk, acked, writes, late>>

text(h, data)   == SendStart(h, "Text", data)
binary(h, data) == SendStart(h, "Binary", data)
ping(h, data)   == SendStart(h, "Ping", data)
pong_asPing(h, data) == SendStart(h, "Ping", data)
pong(h, data)   == SendStart(h, "Pong", data)

\* ------------------------------------------------------------------- close
\* pre_check, then `if let Some(inner) = self.inner.take()`.
close_noPreCheck(h, reason) ==
    /\ CanStart(h)
    /\ opn' = [opn EXCEPT ![h] = @ + 1]
    /\ started' = started + 1
    /\ UNCHANGED limit
    /\ LET slot == inner[h] IN
       /\ inner' = [inner EXCEPT ![h] = FALSE]
       /\ obs' = [obs EXCEPT ![h] = Begin(h, "close")]
       /\ seen' = [seen EXCEPT ![h] = @ \/ closed]
       /\ IF slot
          THEN /\ pc' = [pc EXCEPT ![h] = "store"]
               /\ msg' = [msg EXCEPT ![h] =
                            [tag |-> "Close", data |-> reason, src |-> h, id |-> opn[h] + 1]]
               /\ res' = [res EXCEPT ![h] = "none"]
               /\ UNCHANGED <<erred, life>>
          ELSE /\ res' = [res EXCEPT ![h] = "Closed"]
               /\ erred' = [erred EXCEPT ![h] = TRUE]
               /\ life' = [life EXCEPT ![h] = "gone"]
               /\ UNCHANGED <<pc, msg>>
    /\ UNCHANGED <<closed, chan, rxAlive, received, pushed, closeOk, acked, writes, late>>
close(h, reason) ==
    /\ CanStart(h)
    /\ opn' = [opn EXCEPT ![h] = @ + 1]
    /\ started' = started + 1
    /\ UNCHANGED limit
    /\ LET slot == pre_check(inner[h], closed) IN
       /\ inner' = [inner EXCEPT ![h] = FALSE]
       /\ obs' = [obs EXCEPT ![h] = Begin(h, "close")]
       /\ seen' = [seen EXCEPT ![h] = @ \/ closed]
       /\ IF slot
          THEN /\ pc' = [pc EXCEPT ![h] = "store"]
               /\ msg' = [msg EXCEPT ![h] =
                            [tag |-> "Close", data |-> reason, src |-> h, id |-> opn[h] + 1]]
               /\ res' = [res EXCEPT ![h] = "none"]
               /\ UNCHANGED <<erred, life>>
          ELSE /\ res' = [res EXCEPT ![h] = "Closed"]
               /\ erred' = [erred EXCEPT ![h] = TRUE]
               /\ life' = [life EXCEPT ![h] = "gone"]
               /\ UNCHANGED <<pc, msg>>
    /\ UNCHANGED <<closed, chan, rxAlive, received, pushed, closeOk, acked, writes, late>>

\* self.closed.store(true, Relaxed)
CloseStore_skip(h) ==
    /\ pc[h] = "store"
    /\ pc' = [pc EXCEPT ![h] = "send"]
    /\ UNCHANGED <<seen, late, closed, writes, obs, inner, life, msg, chan, rxAlive, received,
                   res, opn, started, limit, pushed, closeOk, erred, acked>>
CloseStore_toggle(h) ==
    /\ pc[h] = "store"
    /\ closed' = ~closed
    /\ writes' = writes + 1
    /\ pc' = [pc EXCEPT ![h] = "send"]
    /\ obs' = [obs EXCEPT ![h].wrote = TRUE]
    /\ UNCHANGED <<seen, late, inner, life, msg, chan, rxAlive, received, res, opn, started,
                   limit, pushed, closeOk, erred, acked>>
CloseStore(h) ==
    /\ pc[h] = "store"
    /\ closed' = TRUE
    /\ writes' = writes + 1
    /\ pc' = [pc EXCEPT ![h] = "send"]
    /\ obs' = [obs EXCEPT ![h].wrote = TRUE]
    /\ UNCHANGED <<seen, late, inner, life, msg, chan, rxAlive, received, res, opn, started,
                   limit, pushed, closeOk, erred, acked>>

\* --------------------------------------------- inner.send(msg).await.map_err
Enqueue(q, m) == Append(q, m)

\* The send completes: Err when the receiver is gone, else the message is queued.
Complete_ignoreErr(h) ==
    /\ IF rxAlive
       THEN /\ chan' = Enqueue(chan, msg[h])
            /\ pushed' = Append(pushed, msg[h])
            /\ late' = [late EXCEPT ![h] = IF closed THEN @ + 1 ELSE @]
            /\ obs' = [obs EXCEPT ![h].push = "ok"]
       ELSE /\ obs' = [obs EXCEPT ![h].push = "fail"]
            /\ UNCHANGED <<chan, pushed, late>>
    /\ Return(h, "Ok")
    /\ UNCHANGED <<closed, writes>>
Complete_inverted(h) ==
    /\ IF rxAlive
       THEN /\ chan' = Enqueue(chan, msg[h])
            /\ pushed' = Append(pushed, msg[h])
            /\ late' = [late EXCEPT ![h] = IF closed THEN @ + 1 ELSE @]
            /\ obs' = [obs EXCEPT ![h].push = "ok"]
            /\ Return(h, "Closed")
       ELSE /\ obs' = [obs EXCEPT ![h].push = "fail"]
            /\ Return(h, "Ok")
            /\ UNCHANGED <<chan, pushed, late>>
    /\ UNCHANGED <<closed, writes>>
Complete_poison(h) ==
    IF rxAlive
    THEN /\ chan' = Enqueue(chan, msg[h])
         /\ pushed' = Append(pushed, msg[h])
         /\ late' = [late EXCEPT ![h] = IF closed THEN @ + 1 ELSE @]
         /\ obs' = [obs EXCEPT ![h].push = "ok"]
         /\ Return(h, "Ok")
         /\ UNCHANGED <<closed, writes>>
    ELSE /\ obs' = [obs EXCEPT ![h].push = "fail"]
         /\ Return(h, "Closed")
         /\ closed' = TRUE
         /\ UNCHANGED <<chan, pushed, writes, late>>
Complete(h) ==
    /\ IF rxAlive
       THEN /\ chan' = Enqueue(chan, msg[h])
            /\ pushed' = Append(pushed, msg[h])
            /\ late' = [late EXCEPT ![h] = IF closed THEN @ + 1 ELSE @]
            /\ obs' = [obs EXCEPT ![h].push = "ok"]
            /\ Return(h, "Ok")
       ELSE /\ obs' = [obs EXCEPT ![h].push = "fail"]
            /\ Return(h, "Closed")
            /\ UNCHANGED <<chan, pushed, late>>
    /\ UNCHANGED <<closed, writes>>

\* First poll of the send future: completes, or suspends on a full channel.
Push_try(h) ==
    /\ pc[h] = "send"
    /\ IF rxAlive /\ Len(chan) >= Cap
       THEN /\ obs' = [obs EXCEPT ![h].push = "fail"]
            /\ Return(h, "Closed")
            /\ UNCHANGED <<chan, pushed, closed, writes, late>>
       ELSE Complete(h)
    /\ UNCHANGED <<seen, inner, rxAlive, received, opn, started, limit>>
Push_lossy(h) ==
    /\ pc[h] = "send"
    /\ IF rxAlive /\ Len(chan) >= Cap
       THEN /\ obs' = [obs EXCEPT ![h].push = "ok"]
            /\ Return(h, "Ok")
            /\ UNCHANGED <<chan, pushed, closed, writes, late>>
       ELSE Complete(h)
    /\ UNCHANGED <<seen, inner, rxAlive, received, opn, started, limit>>
Push(h) ==
    /\ pc[h] = "send"
    /\ IF rxAlive /\ Len(chan) >= Cap
       THEN /\ pc' = [pc EXCEPT ![h] = "wait"]
            /\ obs' = [obs EXCEPT ![h].waited = TRUE]
            /\ UNCHANGED <<msg, chan, res, pushed, closeOk, erred, life,
                           acked, closed, writes, late>>
       ELSE Complete(h)
    /\ UNCHANGED <<seen, inner, rxAlive, received, opn, started, limit>>

\* The suspended send is woken: space became available or the channel closed.
Wake_spaceOnly(h) ==
    /\ pc[h] = "wait"
    /\ rxAlive /\ Len(chan) < Cap
    /\ Complete(h)
    /\ UNCHANGED <<seen, inner, rxAlive, received, opn, started, limit>>
Wake(h) ==
    /\ pc[h] = "wait"
    /\ ~rxAlive \/ Len(chan) < Cap
    /\ Complete(h)
    /\ UNCHANGED <<seen, inner, rxAlive, received, opn, started, limit>>

\* The task suspended in the send is cancelled: its future is dropped, and with
\* it the message; close's future owns the handle, which is dropped too.
Cancel(h) ==
    /\ pc[h] = "wait"
    /\ pc' = [pc EXCEPT ![h] = "idle"]
    /\ msg' = [msg EXCEPT ![h] = NoMsg]
    /\ obs' = [obs EXCEPT ![h].cancelled = TRUE]
    /\ life' = [life EXCEPT ![h] = IF obs[h].op = "close" THEN "gone" ELSE @]
    /\ UNCHANGED <<seen, closed, inner, chan, rxAlive, received, res, opn, started, limit, pushed,
                   closeOk, erred, acked, writes, late>>

\* ---------------------------------------------------- #[derive(Clone)], drop
Clone(h, c) ==
    /\ life[h] = "live" /\ pc[h] = "idle"
    /\ life[c] = "unborn" /\ \A k \in Handles : k < c => life[k] # "unborn"
    /\ life' = [life EXCEPT ![c] = "live"]
    /\ inner' = [inner EXCEPT ![c] = inner[h]]
    /\ seen' = [seen EXCEPT ![c] = seen[h]]
    /\ UNCHANGED <<closed, pc, msg, chan, rxAlive, received, res, opn, started, limit, obs,
                   pushed, closeOk, erred, acked, writes, late>>

\* Dropping a handle releases its sender; nothing is recorded of it any more.
Drop_closes(h) ==
    /\ CanStart(h)
    /\ opn' = [opn EXCEPT ![h] = @ + 1]
    /\ started' = started + 1
    /\ UNCHANGED limit
    /\ life' = [life EXCEPT ![h] = "gone"]
    /\ inner' = [inner EXCEPT ![h] = FALSE]
    /\ res' = [res EXCEPT ![h] = "none"]
    /\ obs' = [obs EXCEPT ![h] = NoObs]
    /\ erred' = [erred EXCEPT ![h] = FALSE]
    /\ seen' = [seen EXCEPT ![h] = FALSE]
    /\ closed' = TRUE
    /\ late' = [late EXCEPT ![h] = 0]
    /\ UNCHANGED <<pc, msg, chan, rxAlive, received, pushed,
                   closeOk, acked, writes>>
Drop(h) ==
    /\ CanStart(h)
    /\ opn' = [opn EXCEPT ![h] = @ + 1]
    /\ started' = started + 1
    /\ UNCHANGED limit
    /\ life' = [life EXCEPT ![h] = "gone"]
    /\ inner' = [inner EXCEPT ![h] = FALSE]
    /\ res' = [res EXCEPT ![h] = "none"]
    /\ obs' = [obs EXCEPT ![h] = NoObs]
    /\ erred' = [erred EXCEPT ![h] = FALSE]
    /\ seen' = [seen EXCEPT ![h] = FALSE]
    /\ late' = [late EXCEPT ![h] = 0]
    /\ UNCHANGED <<closed, pc, msg, chan, rxAlive, received, pushed,
                   closeOk, acked, writes>>

\* ------------------------------------------------- the consumer (transport)
Recv ==
    /\ rxAlive /\ chan # <<>>
    /\ received' = Append(received, Head(chan))
    /\ chan' = Tail(chan)
    /\ UNCHANGED <<seen, closed, inner, life, pc, msg, rxAlive, res, opn, started, limit, obs, pushed,
                   closeOk, erred, acked, writes, late>>

\* The receive endpoint is dropped; what was still buffered is never received.
DropRx ==
    /\ rxAlive
    /\ rxAlive' = FALSE
    /\ chan' = <<>>
    /\ UNCHANGED <<seen, closed, inner, life, pc, msg, received, res, opn, started, limit, obs, pushed,
                   closeOk, erred, acked, writes, late>>

Next ==
    \/ \E h \in Handles, d \in Payloads : text(h, d)
    \/ \E h \in Handles, d \in Payloads : binary(h, d)
    \/ \E h \in Handles, d \in Payloads : ping(h, d)
    \/ \E h \in Handles, d \in Payloads : pong(h, d)
    \/ \E h \in Handles, r \in Reasons : close(h, r)
    \/ \E h \in Handles : CloseStore(h)
    \/ \E h \in Handles : Push(h)
    \/ \E h \in Handles : Wake(h)
    \/ \E h \in Handles : Cancel(h)
    \/ \E h, c \in Handles : Clone(h, c)
    \/ \E h \in Handles : Drop(h)
    \/ Recv
    \/ DropRx

Spec == Init /\ [][Next]_vars

TypeOK ==
    /\ closed \in BOOLEAN
    /\ inner \in [Handles -> BOOLEAN]
    /\ life \in [Handles -> {"unborn", "live", "gone"}]
    /\ pc \in [Handles -> {"idle", "store", "send", "wait"}]
    /\ Len(chan) <= Cap
    /\ \A i \in 1..Len(pushed) : pushed[i].tag \in SendTags \cup {"Close"}
    /\ \A i \in 1..Len(pushed) :
          pushed[i].data \in (IF IsClose(pushed[i]) THEN Reasons ELSE Payloads)
    /\ rxAlive \in BOOLEAN
    /\ res \in [Handles -> {"none", "Ok", "Closed"}]
    /\ limit \in {MaxOps, MaxOps + 1}
    /\ opn \in [Handles -> 0..limit]
    /\ started \in 0..limit
    /\ seen \in [Handles -> BOOLEAN]
    /\ late \in [Handles -> 0..limit]

\* ------------------------------------------------------------------ claims
Stream == received \o chan
CloseCount == Cardinality({i \in 1..Len(pushed) : IsClose(pushed[i])})
NoCloseCalled == \A g \in Handles : obs[g].op # "close"
SentBy(h, n) == \E i \in 1..Len(pushed) : pushed[i].src = h /\ pushed[i].id = n

\* C1: a text/binary/ping/pong operation that starts after some close() of the
\* family has returned Ok returns Closed (at once: it never reaches its push).
C1_ClosedAfterCloseOk ==
    \A h \in Handles :
        (obs[h].op = "send" /\ obs[h].afterCloseOk)
            => (res[h] = "Closed" /\ pc[h] = "idle" /\ obs[h].push = "no")

C1_Witness ==
    \E h, g \in Handles :
        /\ h # g
        /\ obs[g].op = "close" /\ res[g] = "Ok"
        /\ obs[h].op = "send" /\ obs[h].afterCloseOk /\ res[h] = "Closed"

\* C2: the shared flag is monotonic: no step takes it from true back to false.
C2_FlagMonotonic == [][closed => closed']_vars

C2_Witness ==
    /\ closed
    /\ \E h \in Handles : obs[h].op = "send" /\ obs[h].readTrue /\ life[h] = "live"

\* C3: an operation returns Closed exactly when its pre-check read the flag
\* true or its push failed, and a push fails only when the consumer is dropped;
\* in every other case it returns Ok.
C3_ClosedIffFlagOrPushFailed ==
    \A h \in Handles :
        /\ res[h] # "none" =>
              (res[h] = "Closed" <=> (obs[h].readTrue \/ obs[h].push = "fail"))
        /\ obs[h].push = "fail" => ~rxAlive
        /\ (res[h] = "Closed" /\ ~obs[h].readTrue) => ~rxAlive

C3_Witness ==
    \E h, g \in Handles :
        /\ res[h] = "Closed" /\ obs[h].readTrue /\ obs[h].push = "no"
        /\ res[g] = "Closed" /\ ~obs[g].readTrue /\ obs[g].push = "fail"

\* C4 (as claimed): the channel never receives a second Close frame from the
\* family, whatever the interleaving of close() calls on the clones.
C4_AtMostOneCloseFrame == CloseCount <= 1

\* C5 (as claimed): once a Close frame has been enqueued no further frame is
\* enqueued: the Close frame is the last frame.
C5_CloseFrameIsLast ==
    \A i \in 1..Len(pushed) : IsClose(pushed[i]) => i = Len(pushed)

\* C5 (amended): an operation that starts after a Close frame has been enqueued
\* enqueues nothing and returns Closed.
C5_NoPushStartedAfterCloseFrame ==
    \A h \in Handles :
        obs[h].afterCloseFrame
            => (res[h] = "Closed" /\ obs[h].push = "no" /\ ~SentBy(h, opn[h]))

C5_Witness ==
    /\ HasClose(pushed)
    /\ \E h \in Handles :
          obs[h].op = "send" /\ obs[h].afterCloseFrame /\ res[h] = "Closed"

\* C6: a text/binary/ping/pong operation that starts after the receive endpoint
\* was dropped returns Closed; when no close() was ever called it fails in its
\* push, the flag having read false and being false still.
C6_ClosedAfterRxDrop ==
    \A h \in Handles :
        (obs[h].op = "send" /\ obs[h].afterDrop /\ pc[h] = "idle")
            => /\ res[h] = "Closed"
               /\ NoCloseCalled
                    => (~closed /\ ~obs[h].readTrue /\ obs[h].push = "fail")

C6_Witness ==
    \E h \in Handles :
        /\ obs[h].op = "send" /\ obs[h].afterDrop /\ res[h] = "Closed"
        /\ NoCloseCalled /\ ~closed /\ inner[h]

C9_WrittenOnceBySuccessfulClose ==
    /\ writes <= 1
    /\ \A h \in Handles : (obs[h].wrote /\ res[h] # "none") => res[h] = "Ok"

\* C9 (amended): every write of the flag stores true and is the store of a
\* close() whose pre-check read the flag false; nothing else writes the flag.
C9_OnlyCloseStoresTrue ==
    [][(closed' # closed \/ writes' # writes)
          => /\ closed' = TRUE
             /\ writes' = writes + 1
             /\ \E h \in Handles :
                   /\ pc[h] = "store" /\ pc'[h] = "send"
                   /\ obs[h].op = "close" /\ ~obs[h].readTrue]_vars

C9_Witness ==
    /\ writes = 2
    /\ \E h \in Handles : obs[h].wrote /\ res[h] = "Closed"

\* C10 (as claimed): an operation cancelled while suspended in its push has
\* delivered no frame and has not changed the flag.
C10_CancelLeavesNoTrace ==
    \A h \in Handles :
        obs[h].cancelled => (~obs[h].wrote /\ ~SentBy(h, opn[h]))
\* A handle the caller still holds: created, not dropped, not moved into close.
Held(h) == life[h] = "live" /\ obs[h].op # "close"

Fairness ==
    /\ \A h \in Handles : WF_vars(CloseStore(h))
    /\ \A h \in Handles : WF_vars(Push(h))
    /\ \A h \in Handles : WF_vars(Wake(h))
    /\ WF_vars(Recv)

\* No step looks at a payload or a reason, so progress is checked with one of each.
NextOneDatum ==
    \/ \E h \in Handles : text(h, "a")
    \/ \E h \in Handles : binary(h, "a")
    \/ \E h \in Handles : ping(h, "a")
    \/ \E h \in Handles : pong(h, "a")
    \/ \E h \in Handles : close(h, "None")
    \/ \E h \in Handles : CloseStore(h)
    \/ \E h \in Handles : Push(h)
    \/ \E h \in Handles : Wake(h)
    \/ \E h \in Handles : Cancel(h)
    \/ \E h, c \in Handles : Clone(h, c)
    \/ \E h \in Handles : Drop(h)
    \/ Recv
    \/ DropRx

FairSpec == Init /\ [][NextOneDatum]_vars /\ Fairness

\* C12: with a fair consumer every operation that has started ends: it returns
\* Ok or Closed (or its task is cancelled while it is suspended); an operation
\* whose pre-check read the flag true has returned Closed without suspending.
C12_EveryOperationReturns ==
    /\ \A h \in Handles :
          (pc[h] # "idle") ~>
              (pc[h] = "idle" /\ (res[h] \in {"Ok", "Closed"} \/ obs[h].cancelled))
    /\ [](\A h \in Handles :
            obs[h].readTrue
                => (pc[h] = "idle" /\ res[h] = "Closed" /\ ~obs[h].waited))

C12_Witness ==
    \E h \in Handles :
        /\ obs[h].waited /\ ~obs[h].cancelled
        /\ pc[h] = "idle" /\ res[h] = "Ok"
\* Runs of one more operation, kept small: only text("a") and close(None) are
\* called, no task is cancelled, no handle dropped.  Spec3 has these runs beside
\* Spec's.
NextLong ==
    \/ \E h \in Handles : text(h, "a")
    \/ \E h \in Handles : close(h, "None")
    \/ \E h \in Handles : CloseStore(h)
    \/ \E h \in Handles : Push(h)
    \/ \E h \in Handles : Wake(h)
    \/ \E h, c \in Handles : Clone(h, c)
    \/ Recv
    \/ DropRx

Init3 == InitWith(MaxOps) \/ InitWith(MaxOps + 1)
Next3 == (limit = MaxOps /\ Next) \/ (limit = MaxOps + 1 /\ NextLong)
Spec3 == Init3 /\ [][Next3]_vars
\* The operation of h has built exactly this message and goes on to push it.
Builds(h, tag, data, at) ==
    /\ pc'[h] = at
    /\ msg'[h].tag = tag /\ msg'[h].data = data
    /\ msg'[h].src = h /\ msg'[h].id = opn'[h]

\* The sequential scenario: text on H1 returned Ok, then close on H1 returned
\* Ok, then text on the clone H2 (its only operation) started.
ScenarioRun ==
    /\ opn[1] = 2 /\ opn[2] = 1 /\ \A h \in Handles : h > 2 => opn[h] = 0
    /\ <<1, 1>> \in acked
    /\ \E i \in 1..Len(pushed) :
          pushed[i].src = 1 /\ pushed[i].id = 1 /\ pushed[i].tag = "Text"
    /\ obs[1].op = "close" /\ res[1] = "Ok"
    /\ obs[2].op = "send" /\ obs[2].afterCloseOk

\* C13: an operation whose pre-check reads the flag false builds the message of
\* its own tag with its argument as payload (close: a Close message with the
\* given reason), keeps it until its push, and with a live consumer the push
\* puts exactly that message at the channel's tail and returns Ok.  In the
\* scenario text on H1, close on H1, text on clone H2 the results are Ok, Ok,
\* Closed and the consumer is given exactly the Text and the Close message.
C13_ForwardsOneMatchingFrame ==
    /\ [][\A h \in Handles :
            /\ (~closed /\ opn'[h] # opn[h]) =>
                  /\ \A d \in Payloads :
                        /\ text(h, d) => Builds(h, "Text", d, "send")
                        /\ binary(h, d) => Builds(h, "Binary", d, "send")
                        /\ ping(h, d) => Builds(h, "Ping", d, "send")
                        /\ pong(h, d) => Builds(h, "Pong", d, "send")
                  /\ \A r \in Reasons :
                        close(h, r) => Builds(h, "Close", r, "store")
            /\ (pc[h] # "idle" /\ pc'[h] # "idle") => msg'[h] = msg[h]
            /\ (pc[h] \in {"send", "wait"} /\ pc'[h] = "idle"
                    /\ ~obs'[h].cancelled /\ rxAlive)
                  => /\ chan' = Append(chan, msg[h])
                     /\ pushed' = Append(pushed, msg[h])
                     /\ res'[h] = "Ok"]_vars
    /\ [](ScenarioRun =>
            /\ res[2] = "Closed"
            /\ Len(pushed) = 2
            /\ pushed[1].tag = "Text" /\ pushed[1].src = 1 /\ pushed[1].id = 1
            /\ pushed[2].tag = "Close" /\ pushed[2].src = 1 /\ pushed[2].id = 2
            /\ rxAlive => received \o chan = pushed)

C13_Witness ==
    /\ ScenarioRun /\ res[2] = "Closed"
    /\ rxAlive /\ chan = <<>>
    /\ Len(received) = 2
    /\ received[1].tag = "Text" /\ received[1].data = "a"
    /\ received[2].tag = "Close" /\ received[2].data = "None"
\* h starts one of the five operations in this step.
Starts(h) == opn'[h] = opn[h] + 1 /\ obs'[h].op \in {"send", "close"}

C15_CloneCopiesSlotSharesFlag ==
    /\ [][\A c \in Handles :
            (life[c] = "unborn" /\ life'[c] = "live")
                => /\ \E h \in Handles \ {c} :
                         life[h] = "live" /\ inner'[c] = inner[h]
                   /\ \A g \in Handles \ {c} :
                         inner'[g] = inner[g] /\ life'[g] = life[g]
                   /\ UNCHANGED <<closed, chan, pushed, received, rxAlive, pc,
                                  msg, res, opn, writes>>]_vars
    /\ [][\A h \in Handles :
            (life[h] = "live" /\ life'[h] = "gone")
                => /\ \A g \in Handles \ {h} : inner'[g] = inner[g]
                   /\ closed' = closed]_vars
    /\ [](closed <=> writes > 0)
    /\ [](\A h \in Handles : res[h] = "Ok" => ~obs[h].readTrue)

C15_Witness ==
    /\ obs[2].op = "close" /\ obs[2].wrote /\ res[2] = "Ok"
    /\ obs[1].op = "send" /\ obs[1].readTrue /\ res[1] = "Closed"
    /\ life[1] = "live"
\* C16: a send that passed its pre-check before a close on another clone stored
\* the flag may still push its message once the flag is true, and then the
\* message is enqueued (Ok) or, the consumer being gone, the operation fails
\* with Closed; the next operation of that clone reads the flag as true, so no
\* clone ever enqueues more than one message while the flag is true.
C16_OnePushAfterFlagPerClone ==
    /\ [](\A h \in Handles : late[h] <= 1)
    /\ [][\A h \in Handles :
            /\ (closed /\ pc[h] \in {"send", "wait"} /\ pc'[h] = "idle" /\ ~obs'[h].cancelled)
                  => \/ /\ res'[h] = "Ok" /\ late'[h] = late[h] + 1
                        /\ pushed' = Append(pushed, msg[h]) /\ chan' = Append(chan, msg[h])
                     \/ /\ res'[h] = "Closed" /\ ~rxAlive /\ late'[h] = late[h]
                        /\ UNCHANGED <<pushed, chan>>
            /\ late'[h] > late[h] => ~obs[h].readTrue
            /\ (Starts(h) /\ late[h] >= 1) => (obs'[h].readTrue /\ res'[h] = "Closed")]_vars
C16_Witness ==
    \E h \in Handles :
        /\ late[h] = 1 /\ life[h] = "live"
        /\ \E i \in 1..Len(pushed) : pushed[i].src = h /\ pushed[i].id = 1 /\ pushed[i].tag = "Text"
        /\ opn[h] = 2 /\ obs[h].op = "send" /\ obs[h].readTrue /\ res[h] = "Closed"


\* C17: a close() whose pre-check reads the flag as true returns Closed, enqueues
\* no Close message and does not store to the flag; so a close() started after
\* another close() of the family has returned enqueues nothing.
C17_CloseAfterFlagIsNoOp ==
    /\ [][\A h \in Handles :
            (Starts(h) /\ obs'[h].op = "close" /\ closed)
               => /\ res'[h] = "Closed" /\ pc'[h] = "idle" /\ life'[h] = "gone"
                  /\ msg'[h] = NoMsg
                  /\ UNCHANGED <<closed, writes, chan, pushed, received, late>>]_vars
    /\ [](\A h \in Handles :
            (obs[h].op = "close" /\ (obs[h].readTrue \/ obs[h].afterCloseOk))
               => /\ obs[h].readTrue /\ res[h] = "Closed" /\ pc[h] = "idle"
                  /\ ~obs[h].wrote /\ obs[h].push = "no" /\ ~SentBy(h, opn[h]))
C17_Witness ==
    /\ obs[1].op = "close" /\ obs[1].wrote /\ res[1] = "Ok"
    /\ obs[2].op = "close" /\ obs[2].afterCloseOk /\ obs[2].readTrue /\ res[2] = "Closed"
    /\ ~obs[2].wrote /\ CloseCount = 1 /\ writes = 1

\* C18: close() stores true to the flag before it pushes and whatever the push
\* returns: a Close message is never enqueued while the flag is false, and a
\* close() whose push failed because the consumer is gone has set the flag, so
\* the flag can be true although no Close message was ever enqueued.
C18_StoreBeforePush ==
    /\ [](HasClose(pushed) => closed)
    /\ [](\A h \in Handles :
            (obs[h].op = "close" /\ pc[h] \in {"send", "wait"}) => (obs[h].wrote /\ closed))
    /\ [](\A h \in Handles :
            (obs[h].op = "close" /\ obs[h].push = "fail")
               => (obs[h].wrote /\ closed /\ res[h] = "Closed" /\ ~SentBy(h, opn[h])))
    /\ [][(pushed' # pushed /\ IsClose(pushed'[Len(pushed')])) => (closed /\ closed')]_vars
C18_Witness ==
    \E h \in Handles :
        /\ obs[h].op = "close" /\ obs[h].push = "fail" /\ res[h] = "Closed"
        /\ obs[h].wrote /\ closed /\ ~rxAlive /\ ~HasClose(pushed)

\* C19: a handle that is still held (not consumed by a close) and whose slot is
\* absent implies that the flag is true; no operation returns Closed from the
\* absent-slot branch while the flag is false.
C19_AbsentSlotImpliesFlag ==
    /\ [](\A h \in Handles : (Held(h) /\ ~inner[h]) => closed)
    /\ [][\A h \in Handles :
            (Starts(h) /\ res'[h] = "Closed") => (closed /\ closed' /\ obs'[h].readTrue)]_vars
    /\ [](\A h \in Handles :
            (res[h] = "Closed" /\ obs[h].push = "no" /\ ~obs[h].cancelled) => closed)
C19_Witness ==
    \E h, g \in Handles :
        /\ Held(h) /\ ~inner[h] /\ closed /\ res[h] = "Closed" /\ obs[h].push = "no"
        /\ obs[g].op = "close" /\ pc[g] = "send" /\ ~HasClose(pushed)

\* C20: a text/binary/ping/pong whose push fails because the consumer was
\* dropped changes neither the flag nor any slot, its own included; with the
\* flag still false each later operation on any clone passes its pre-check,
\* attempts its own push and fails on it.
C20_PushFailureNotBroadcast ==
    /\ [][\A h \in Handles :
            (obs[h].op = "send" /\ obs[h].push = "no" /\ obs'[h].push = "fail")
               => /\ res'[h] = "Closed" /\ ~rxAlive
                  /\ inner[h] /\ inner'[h]
                  /\ UNCHANGED <<closed, writes, inner, pushed, chan>>]_vars
    /\ [][\A h \in Handles :
            (Starts(h) /\ obs'[h].op = "send" /\ ~rxAlive /\ ~closed)
               => (pc'[h] = "send" /\ inner'[h] /\ res'[h] = "none")]_vars
    /\ [](\A h \in Handles :
            (obs[h].op = "send" /\ obs[h].afterDrop /\ ~obs[h].readTrue /\ pc[h] = "idle")
               => (obs[h].push = "fail" /\ res[h] = "Closed" /\ inner[h]))
    /\ []((\A g \in Handles : ~obs[g].wrote) => ~closed)
C20_Witness ==
    /\ ~closed /\ writes = 0 /\ ~rxAlive
    /\ obs[1].op = "send" /\ obs[1].push = "fail" /\ res[1] = "Closed" /\ inner[1]
    /\ obs[2].op = "send" /\ obs[2].afterDrop /\ obs[2].push = "fail" /\ res[2] = "Closed"
    /\ inner[2] /\ pushed = <<>>

====
